---- MODULE Spec2Model ----
(***************************************************************************)
(* A model of the simple math lisp interpreter of src/main.rs: the lexer   *)
(* (tokenize), the recursive-descent parser (Parser::parse / parse_form),  *)
(* the tree-walking evaluator (Interpreter::evaluate) and the host loop    *)
(* (main).                                                                 *)
(*                                                                         *)
(* Text is a sequence of characters, each character a string.  The         *)
(* tokenizer's cursor counts bytes, as in the source, so a character also  *)
(* has an encoded length (len_utf8).  i64 is modelled as a signed integer  *)
(* of IntBits bits; overflow panics when the build checks overflow and     *)
(* wraps when it does not, and overflow_checks records which build runs.   *)
(***************************************************************************)
EXTENDS Integers, Sequences, FiniteSets, TLC

VARIABLES pc, overflow_checks, expr, start_index, tokens, ast, result, printed

vars == <<pc, overflow_checks, expr, start_index, tokens, ast, result, printed>>

(***************************************************************************)
(* Bounds of the model.                                                    *)
(***************************************************************************)
\* width of the modelled i64, in bits
IntBits == 5
\* longest line of free text read by the host loop, in characters
MaxLen == 3
\* longest token sequence handed to Parser::parse directly
MaxTokens == 5
\* most operands of a flat list handed to Interpreter::evaluate directly
MaxArgs == 2
\* deepest nesting of the lists handed to Interpreter::evaluate directly
MaxDepth == 3

RECURSIVE Pow2(_)
Pow2(n) == IF n = 0 THEN 1 ELSE 2 * Pow2(n - 1)

MinInt == -Pow2(IntBits - 1)
MaxInt == Pow2(IntBits - 1) - 1

(***************************************************************************)
(* Results.  Ok and Err are the two variants of Result; Panic is the       *)
(* process aborting (an index out of range, a failed unwrap, an            *)
(* arithmetic panic).                                                      *)
(***************************************************************************)
Ok(v) == [tag |-> "Ok", value |-> v]
Err(m) == [tag |-> "Err", error |-> m]
Panic(m) == [tag |-> "Panic", message |-> m]
None == [tag |-> "None"]

IsOk(r) == r.tag = "Ok"
IsErr(r) == r.tag = "Err"
IsPanic(r) == r.tag = "Panic"

(***************************************************************************)
(* LispExpr and TokenType.                                                 *)
(***************************************************************************)
Number(n) == [kind |-> "Number", number |-> n]
Symbol(s) == [kind |-> "Symbol", symbol |-> s]
List(vs) == [kind |-> "List", values |-> vs]

IsNumber(e) == e.kind = "Number"
IsSymbol(e) == e.kind = "Symbol"
IsList(e) == e.kind = "List"

TokLeftParen == [token_type |-> "LeftParen"]
TokRightParen == [token_type |-> "RightParen"]
TokNumber(n) == [token_type |-> "Number", number |-> n]
TokSymbol(s) == [token_type |-> "Symbol", string |-> s]

(***************************************************************************)
(* Characters.                                                             *)
(***************************************************************************)
Digits == {"0", "1", "2", "3", "4", "5", "6", "7", "8", "9"}

DigitVal(c) ==
    CASE c = "0" -> 0 [] c = "1" -> 1 [] c = "2" -> 2 [] c = "3" -> 3
      [] c = "4" -> 4 [] c = "5" -> 5 [] c = "6" -> 6 [] c = "7" -> 7
      [] c = "8" -> 8 [] c = "9" -> 9

DigitChar(d) ==
    CASE d = 0 -> "0" [] d = 1 -> "1" [] d = 2 -> "2" [] d = 3 -> "3"
      [] d = 4 -> "4" [] d = 5 -> "5" [] d = 6 -> "6" [] d = 7 -> "7"
      [] d = 8 -> "8" [] d = 9 -> "9"

Letters ==
    {"a", "b", "c", "d", "e", "f", "g", "h", "i", "j", "k", "l", "m",
     "n", "o", "p", "q", "r", "s", "t", "u", "v", "w", "x", "y", "z",
     "A", "B", "C", "D", "E", "F", "G", "H", "I", "J", "K", "L", "M",
     "N", "O", "P", "Q", "R", "S", "T", "U", "V", "W", "X", "Y", "Z"}

OpChars == {"+", "-", "*", "/"}

\* U+00A0, NO-BREAK SPACE: white space that takes two bytes in UTF-8
NBSP == "U+00A0"

\* char::is_whitespace, on the characters of the model
is_whitespace(c) == c \in {" ", "\t", "\n", "\r", NBSP}

\* char::len_utf8, on the characters of the model
len_utf8(c) == IF c = NBSP THEN 2 ELSE 1

RECURSIVE ByteLen(_)
ByteLen(s) == IF s = <<>> THEN 0 ELSE len_utf8(Head(s)) + ByteLen(Tail(s))

\* &expr[n..]: the text from byte offset n on (n is on a character boundary)
RECURSIVE DropBytes(_, _)
DropBytes(s, n) ==
    IF n <= 0 \/ s = <<>> THEN s ELSE DropBytes(Tail(s), n - len_utf8(Head(s)))

\* &expr[..n]: the text before byte offset n
RECURSIVE TakeBytes(_, _)
TakeBytes(s, n) ==
    IF n <= 0 \/ s = <<>> THEN <<>>
    ELSE <<Head(s)>> \o TakeBytes(Tail(s), n - len_utf8(Head(s)))

\* &expr[a..b]
Slice(s, a, b) == TakeBytes(DropBytes(s, a), b - a)

(***************************************************************************)
(* tokenize.                                                               *)
(***************************************************************************)
\* the mutant of StartClass: a character of no category is taken as white space
StartClassSkipsUnknown(c) ==
    CASE c = "(" -> "LeftParen"
      [] c = ")" -> "RightParen"
      [] c \in Digits -> "Number"
      [] c \in Letters \cup OpChars -> "Symbol"
      [] OTHER -> "Whitespace"

\* the mutant of StartClass: a leading '-' starts a Number
StartClassSignedNumber(c) ==
    CASE c = "(" -> "LeftParen"
      [] c = ")" -> "RightParen"
      [] c \in Digits \cup {"-"} -> "Number"
      [] c \in Letters \cup OpChars -> "Symbol"
      [] is_whitespace(c) -> "Whitespace"
      [] OTHER -> "None"

\* TokenizerState::Start => match character
StartClass(c) ==
    CASE c = "(" -> "LeftParen"
      [] c = ")" -> "RightParen"
      [] c \in Digits -> "Number"
      [] c \in Letters \cup OpChars -> "Symbol"
      [] is_whitespace(c) -> "Whitespace"
      [] OTHER -> "None"

\* let next = match state { ... }
Transition(state, c) ==
    CASE state = "Start" -> StartClass(c)
      [] state \in {"LeftParen", "RightParen"} -> "None"
      [] state = "Number" -> IF c \in Digits THEN "Number" ELSE "None"
      [] state = "Symbol" ->
            IF c \in Letters \cup Digits \cup OpChars THEN "Symbol" ELSE "None"
      [] state = "Whitespace" -> IF is_whitespace(c) THEN "Whitespace" ELSE "None"

\* for character in expr[start_index..].chars() { ... }
RECURSIVE ScanChars(_, _, _)
ScanChars(chars, state, end_index) ==
    IF chars = <<>> THEN [state |-> state, end_index |-> end_index]
    ELSE LET next == Transition(state, Head(chars))
         IN  IF next = "None" THEN [state |-> state, end_index |-> end_index]
             ELSE ScanChars(Tail(chars), next, end_index + len_utf8(Head(chars)))

\* one scan: state = Start, end_index = start_index, then the for loop
Scan(text, start) == ScanChars(DropBytes(text, start), "Start", start)

\* the digits of a decimal literal, most significant first
RECURSIVE Magnitude(_, _)
Magnitude(s, acc) ==
    IF s = <<>> THEN acc ELSE Magnitude(Tail(s), 10 * acc + DigitVal(Head(s)))

\* str::parse::<i64>: an optional sign, then one or more digits, in range
ParseI64(s) ==
    LET signed == s # <<>> /\ Head(s) \in {"+", "-"}
        digits == IF signed THEN Tail(s) ELSE s
        value == IF signed /\ Head(s) = "-" THEN -Magnitude(digits, 0)
                 ELSE Magnitude(digits, 0)
    IN  IF s = <<>> THEN Err("Empty")
        ELSE IF digits = <<>> \/ \E i \in 1..Len(digits) : digits[i] \notin Digits
             THEN Err("InvalidDigit")
        ELSE IF value > MaxInt THEN Err("PosOverflow")
        ELSE IF value < MinInt THEN Err("NegOverflow")
        ELSE Ok(value)

\* the mutant of ScanOutcome: a scan that matched nothing starts over
ScanOutcomeRetries(state) ==
    CASE state = "Start" -> "continue"
      [] state = "Whitespace" -> "continue"
      [] OTHER -> "push"

\* let token_type = match state { Start => break, ..., Whitespace => continue }
ScanOutcome(state) ==
    CASE state = "Start" -> "break"
      [] state = "Whitespace" -> "continue"
      [] OTHER -> "push"

\* the token of a scan that ended in LeftParen, RightParen, Number or Symbol
TokenOf(state, token_string) ==
    CASE state = "LeftParen" -> Ok(TokLeftParen)
      [] state = "RightParen" -> Ok(TokRightParen)
      [] state = "Number" ->
            LET n == ParseI64(token_string)
            IN  IF IsOk(n) THEN Ok(TokNumber(n.value))
                ELSE Panic("called Result::unwrap() on an Err value")
      [] state = "Symbol" -> Ok(TokSymbol(token_string))

\* tokenize, run to completion from (start, toks): the tokens, or the panic
RECURSIVE TokenizeFrom(_, _, _)
TokenizeFrom(text, start, toks) ==
    LET scan == Scan(text, start)
        outcome == ScanOutcome(scan.state)
    IN  CASE outcome = "break" -> Ok(toks)
          [] outcome = "continue" ->
                TokenizeFrom(text, scan.end_index, toks)
          [] outcome = "push" ->
                LET t == TokenOf(scan.state, Slice(text, start, scan.end_index))
                IN  IF IsPanic(t) THEN t
                    ELSE TokenizeFrom(text, scan.end_index, Append(toks, t.value))

tokenize(text) == TokenizeFrom(text, 0, <<>>)

(***************************************************************************)
(* Parser.  The token stream is the sequence of the tokens not yet taken;  *)
(* each operator returns the result and the stream it leaves.              *)
(***************************************************************************)
Parsed(r, stream) == [res |-> r, token_stream |-> stream]

\* after the while loop: self.token_stream.next(); Ok(LispExpr::List(list))
FormEnd(stream, list) ==
    Parsed(Ok(List(list)), IF stream = <<>> THEN stream ELSE Tail(stream))

RECURSIVE parse_stream(_), form_loop(_, _)

\* while let Some(token) = self.token_stream.peek() { ... }
form_loop(stream, list) ==
    IF stream = <<>> \/ Head(stream) = TokRightParen THEN FormEnd(stream, list)
    ELSE LET sub == parse_stream(stream)
         IN  IF IsOk(sub.res)
             THEN form_loop(sub.token_stream, Append(list, sub.res.value))
             ELSE sub

\* Parser::parse_form
parse_form(stream) ==
    IF stream # <<>> THEN form_loop(stream, <<>>)
    ELSE Parsed(Err("Invalid expression"), stream)

\* Parser::parse, on the stream
parse_stream(stream) ==
    IF stream # <<>>
    THEN LET token == Head(stream)
             rest == Tail(stream)
         IN  CASE token.token_type = "LeftParen" -> parse_form(rest)
               [] token.token_type = "RightParen" ->
                     Parsed(Err("Unexpected right paren found."), rest)
               [] token.token_type = "Number" -> Parsed(Ok(Number(token.number)), rest)
               [] token.token_type = "Symbol" -> Parsed(Ok(Symbol(token.string)), rest)
    ELSE Parsed(Err("Invalid expression"), stream)

\* Parser::new(tokens).parse()
parse(toks) == parse_stream(toks).res

(***************************************************************************)
(* Interpreter.                                                            *)
(***************************************************************************)
InRange(n) == MinInt <= n /\ n <= MaxInt

\* two's complement wrap-around of an out-of-range result
Wrap(n) == ((n - MinInt) % Pow2(IntBits)) + MinInt

\* an i64 operation that can overflow: panics or wraps, as the build says
Checked(n, checks, what) ==
    IF InRange(n) THEN Ok(n)
    ELSE IF checks THEN Panic(what)
    ELSE Ok(Wrap(n))

\* i64 division: the quotient truncated toward zero
TruncDiv(a, b) ==
    LET abs(x) == IF x < 0 THEN -x ELSE x
        q == abs(a) \div abs(b)
    IN  IF (a < 0) = (b < 0) THEN q ELSE -q

\* acc / number
Divide(acc, number) ==
    IF number = 0 THEN Panic("attempt to divide by zero")
    ELSE IF acc = MinInt /\ number = -1 THEN Panic("attempt to divide with overflow")
    ELSE Ok(TruncDiv(acc, number))

\* the mutant of Add: the sum taken as a difference
AddSubtracts(acc, number, checks) ==
    Checked(acc - number, checks, "attempt to subtract with overflow")

\* acc + number
Add(acc, number, checks) == Checked(acc + number, checks, "attempt to add with overflow")

\* the closure of try_fold: acc + number, acc - number, acc / number, acc * number
Apply(op, acc, number, checks) ==
    CASE op = "+" -> Add(acc, number, checks)
      [] op = "-" -> Checked(acc - number, checks, "attempt to subtract with overflow")
      [] op = "/" -> Divide(acc, number)
      [] op = "*" -> Checked(acc * number, checks, "attempt to multiply with overflow")

\* -initial_value
Negate(n, checks) == Checked(-n, checks, "attempt to negate with overflow")

InvalidOperation(op) == "Invalid " \o op \o " operation"

\* the mutant of OperandError: an operand's own error is passed on unchanged
OperandErrorBubbles(op, value) ==
    IF IsErr(value) THEN value ELSE Err(InvalidOperation(op))

\* _ => Err("Invalid <op> operation".into()): value is no Ok(Number)
OperandError(op, value) == Err(InvalidOperation(op))

\* the mutant of PassThrough: a list with an unknown head is an error
PassThroughRejects(values) ==
    IF IsSymbol(values[1]) THEN Err("Unknown function") ELSE Ok(List(values))

\* _ => Ok(LispExpr::List(values))
PassThrough(values) == Ok(List(values))

OpSymbols == {<<"+">>, <<"-">>, <<"*">>, <<"/">>}

RECURSIVE evaluate(_, _), try_fold(_, _, _, _, _)

\* values[i..].iter().map(|ast| self.evaluate(ast.clone())).try_fold(acc, ...):
\* the operands are evaluated one at a time, and none after the first failure
try_fold(op, values, i, acc, checks) ==
    IF i > Len(values) THEN Ok(acc)
    ELSE LET value == evaluate(values[i], checks)
         IN  IF IsPanic(value) THEN value
             ELSE IF IsOk(value) /\ IsNumber(value.value)
             THEN LET next == Apply(op, acc, value.value.number, checks)
                  IN  IF IsPanic(next) THEN next
                      ELSE try_fold(op, values, i + 1, next.value, checks)
             ELSE OperandError(op, value)

\* if let Ok(sum) = result { Ok(LispExpr::Number(sum)) } else { Err(result.unwrap_err()) }
FoldResult(r) == IF IsOk(r) THEN Ok(Number(r.value)) ELSE r

\* if let Ok(LispExpr::Number(initial_value)) = self.evaluate(values[1].clone())
\* { fold over values[2..] } else { Err("Invalid <op> operation") }
FoldFromFirst(op, values, checks) ==
    IF Len(values) < 2 THEN Panic("index out of bounds")
    ELSE LET first == evaluate(values[2], checks)
         IN  IF IsPanic(first) THEN first
             ELSE IF IsOk(first) /\ IsNumber(first.value)
             THEN FoldResult(try_fold(op, values, 3, first.value.number, checks))
             ELSE Err(InvalidOperation(op))

\* the "-" arm
EvalMinus(values, checks) ==
    LET only == evaluate(values[2], checks)
    IN  IF Len(values) = 2 /\ IsPanic(only) THEN only
        ELSE IF Len(values) = 2 /\ IsOk(only) /\ IsNumber(only.value)
        THEN LET negated == Negate(only.value.number, checks)
             IN  IF IsPanic(negated) THEN negated ELSE Ok(Number(negated.value))
        ELSE FoldFromFirst("-", values, checks)

\* Interpreter::evaluate.  values[0] of the source is values[1] here.
evaluate(e, checks) ==
    IF IsList(e)
    THEN LET values == e.values
         IN  IF Len(values) = 0 THEN Panic("index out of bounds")
             ELSE IF IsSymbol(values[1])
             THEN CASE values[1].symbol = <<"+">> ->
                          FoldResult(try_fold("+", values, 2, 0, checks))
                    [] values[1].symbol = <<"-">> -> EvalMinus(values, checks)
                    [] values[1].symbol = <<"/">> ->
                          IF Len(values) < 3 THEN Err(InvalidOperation("/"))
                          ELSE FoldFromFirst("/", values, checks)
                    [] values[1].symbol = <<"*">> ->
                          IF Len(values) < 3 THEN Err(InvalidOperation("*"))
                          ELSE FoldFromFirst("*", values, checks)
                    [] OTHER -> PassThrough(values)
             ELSE PassThrough(values)
    ELSE Ok(e)

(***************************************************************************)
(* The inputs.                                                             *)
(***************************************************************************)
\* the characters of the lines read: one of each category, the two-byte
\* white space, and "#", a character of no category
Alphabet == {"(", ")", "7", "a", "-", " ", NBSP, "#"}

RECURSIVE Strings(_, _)
Strings(S, n) ==
    IF n = 0 THEN {<<>>}
    ELSE LET shorter == Strings(S, n - 1)
         IN  shorter \cup {Append(s, c) : s \in {t \in shorter : Len(t) = n - 1}, c \in S}

\* the decimal literal of an integer, as it is written
RECURSIVE DecimalDigits(_)
DecimalDigits(n) ==
    IF n < 10 THEN <<DigitChar(n)>>
    ELSE Append(DecimalDigits(n \div 10), DigitChar(n % 10))

Decimal(n) == IF n < 0 THEN <<"-">> \o DecimalDigits(-n) ELSE DecimalDigits(n)

\* the text "(+ a b)"
SumText(a, b) == <<"(", "+", " ">> \o Decimal(a) \o <<" ">> \o Decimal(b) \o <<")">>

SumLines == {SumText(a, b) : a \in MinInt..MaxInt, b \in MinInt..MaxInt}

Lines == Strings(Alphabet, MaxLen) \cup SumLines

\* the token sequences handed to Parser::new
TokenAlphabet == {TokLeftParen, TokRightParen, TokNumber(1), TokSymbol(<<"+">>)}

TokenSeqs == Strings(TokenAlphabet, MaxTokens)

\* the expressions handed to Interpreter::evaluate
NumberLeaves == {Number(n) : n \in {MinInt, -7, -1, 0, 2}}
SymbolLeaves == {Symbol(s) : s \in OpSymbols \cup {<<"f">>}}
Leaves == NumberLeaves \cup SymbolLeaves

\* the operands of the lists of leaves: the numbers and a symbol
OperandLeaves == NumberLeaves \cup {Symbol(<<"f">>)}

\* the lists of leaves with at most n operands, and the empty list
LeafLists(n) ==
    {List(<<>>)} \cup {List(<<h>> \o vs) : h \in Leaves, vs \in Strings(OperandLeaves, n)}

FlatLists == LeafLists(MaxArgs)

\* the lists of S, and each wrapped once more, in (op x) and (op 2 x)
Wrapped(S) ==
    S \cup {List(<<h>> \o pre \o <<x>>) :
               h \in SymbolLeaves, pre \in {<<>>, <<Number(2)>>}, x \in S}

\* the lists nested further: a list of at most one operand, wrapped up to
\* depth d
RECURSIVE Nested(_)
Nested(d) == IF d <= 1 THEN LeafLists(1) ELSE Wrapped(Nested(d - 1))

Exprs == Leaves \cup FlatLists \cup Nested(MaxDepth)

(***************************************************************************)
(* main: the host loop, one line at a time.                                *)
(***************************************************************************)
Init ==
    /\ pc = "loop"
    /\ overflow_checks \in BOOLEAN
    /\ expr = <<>>
    /\ start_index = 0
    /\ tokens = <<>>
    /\ ast = None
    /\ result = None
    /\ printed = [text |-> ""]

\* println!("lisp> ")
Prompt ==
    /\ pc = "loop"
    /\ printed' = [text |-> "lisp> "]
    /\ pc' = "read"
    /\ UNCHANGED <<overflow_checks, expr, start_index, tokens, ast, result>>

\* io::stdin().read_line(&mut expr): a line with its newline, or the text
\* before the end of the input; then tokenize starts
ReadLine ==
    /\ pc = "read"
    /\ \E text \in Lines, eol \in {<<>>, <<"\n">>} : expr' = text \o eol
    /\ start_index' = 0
    /\ tokens' = <<>>
    /\ pc' = "tokenize"
    /\ UNCHANGED <<overflow_checks, ast, result, printed>>

\* one pass of tokenize's loop that ends in Start => break; tokens is returned
TokenizeBreak ==
    /\ pc = "tokenize"
    /\ LET scan == Scan(expr, start_index)
       IN  /\ ScanOutcome(scan.state) = "break"
           /\ start_index' = scan.end_index
    /\ pc' = "parse"
    /\ UNCHANGED <<overflow_checks, expr, tokens, ast, result, printed>>

\* one pass of tokenize's loop that ends in Whitespace => continue
TokenizeSkip ==
    /\ pc = "tokenize"
    /\ LET scan == Scan(expr, start_index)
       IN  /\ ScanOutcome(scan.state) = "continue"
           /\ start_index' = scan.end_index
    /\ UNCHANGED <<pc, overflow_checks, expr, tokens, ast, result, printed>>

\* one pass of tokenize's loop that pushes a token
TokenizePush ==
    /\ pc = "tokenize"
    /\ LET scan == Scan(expr, start_index)
           token == TokenOf(scan.state, Slice(expr, start_index, scan.end_index))
       IN  /\ ScanOutcome(scan.state) = "push"
           /\ IsOk(token)
           /\ start_index' = scan.end_index
           /\ tokens' = Append(tokens, token.value)
    /\ UNCHANGED <<pc, overflow_checks, expr, ast, result, printed>>

\* one pass of tokenize's loop in which token_string.parse().unwrap() panics:
\* the process aborts, and result keeps the panic
TokenizePanic ==
    /\ pc = "tokenize"
    /\ LET scan == Scan(expr, start_index)
           token == TokenOf(scan.state, Slice(expr, start_index, scan.end_index))
       IN  /\ ScanOutcome(scan.state) = "push"
           /\ IsPanic(token)
           /\ start_index' = scan.end_index
           /\ result' = token
    /\ pc' = "panic"
    /\ UNCHANGED <<overflow_checks, expr, tokens, ast, printed>>

\* let ast = Parser::new(tokens).parse(); match ast { ... }
ParseStep ==
    /\ pc = "parse"
    /\ ast' = parse(tokens)
    /\ pc' = IF IsOk(ast') THEN "evaluate" ELSE "print"
    /\ UNCHANGED <<overflow_checks, expr, start_index, tokens, result, printed>>

\* let result = interpreter.evaluate(ast)
EvaluateStep ==
    /\ pc = "evaluate"
    /\ result' = evaluate(ast.value, overflow_checks)
    /\ pc' = IF IsPanic(result') THEN "panic" ELSE "print"
    /\ UNCHANGED <<overflow_checks, expr, start_index, tokens, ast, printed>>

\* println!("{:?}", result.unwrap()) or println!("ERROR: {}", ...); the
\* values of this pass of the loop are dropped
PrintStep ==
    /\ pc = "print"
    /\ printed' = IF IsErr(ast) THEN [text |-> "ERROR: " \o ast.error]
                  ELSE IF IsErr(result) THEN [text |-> "ERROR: " \o result.error]
                  ELSE [debug |-> result.value]
    /\ pc' = "loop"
    /\ expr' = <<>>
    /\ start_index' = 0
    /\ tokens' = <<>>
    /\ ast' = None
    /\ result' = None
    /\ UNCHANGED overflow_checks

Next ==
    \/ Prompt
    \/ ReadLine
    \/ TokenizeBreak
    \/ TokenizeSkip
    \/ TokenizePush
    \/ TokenizePanic
    \/ ParseStep
    \/ EvaluateStep
    \/ PrintStep

Spec == Init /\ [][Next]_vars

(***************************************************************************)
(* Parser::new(tokens).parse() called on any token sequence.               *)
(***************************************************************************)
InitParse ==
    /\ pc = "parser"
    /\ overflow_checks \in BOOLEAN
    /\ expr = <<>>
    /\ start_index = 0
    /\ tokens = <<>>
    /\ ast = None
    /\ result = None
    /\ printed = [text |-> ""]

\* Parser::new(tokens)
NewParser ==
    /\ pc = "parser"
    /\ tokens' \in TokenSeqs
    /\ pc' = "parse"
    /\ UNCHANGED <<overflow_checks, expr, start_index, ast, result, printed>>

NextParse ==
    \/ NewParser
    \/ ParseStep

SpecParse == InitParse /\ [][NextParse]_vars

(***************************************************************************)
(* Interpreter::evaluate called on any expression.                         *)
(***************************************************************************)
InitEval ==
    /\ pc = "interpreter"
    /\ overflow_checks \in BOOLEAN
    /\ expr = <<>>
    /\ start_index = 0
    /\ tokens = <<>>
    /\ ast = None
    /\ result = None
    /\ printed = [text |-> ""]

\* the caller's expression, about to be passed to evaluate
CallEvaluate ==
    /\ pc = "interpreter"
    /\ \E e \in Exprs : ast' = Ok(e)
    /\ pc' = "evaluate"
    /\ UNCHANGED <<overflow_checks, expr, start_index, tokens, result, printed>>

NextEval ==
    \/ CallEvaluate
    \/ EvaluateStep

SpecEval == InitEval /\ [][NextEval]_vars

(***************************************************************************)
(* The properties.                                                         *)
(***************************************************************************)
Tokenized == pc \in {"parse", "evaluate", "print"}
ParseReturned == pc \in {"evaluate", "print"}
Evaluated == pc \in {"print", "panic"} /\ IsOk(ast)

\* the operator a list is headed by, or "" when it is headed by none
HeadOp(e) ==
    IF IsList(e) /\ Len(e.values) > 0 /\ IsSymbol(e.values[1])
          /\ e.values[1].symbol \in OpSymbols
    THEN e.values[1].symbol[1]
    ELSE ""

\* LeftParens less RightParens among the first k tokens
RECURSIVE ParenDepth(_, _)
ParenDepth(toks, k) ==
    IF k = 0 THEN 0
    ELSE ParenDepth(toks, k - 1)
           + (IF toks[k] = TokLeftParen THEN 1 ELSE 0)
           - (IF toks[k] = TokRightParen THEN 1 ELSE 0)

\* the stream runs out while the form its first token opens is still open
Unclosed(toks) == toks # <<>> /\ \A k \in 1..Len(toks) : ParenDepth(toks, k) > 0

\* C1: a token sequence whose LeftParen has no matching RightParen before
\* the stream is exhausted makes Parser::parse return a parse error, never
\* Ok with a List closed by running out of tokens.
C1_UnbalancedIsParseError == (ParseReturned /\ Unclosed(tokens)) => IsErr(ast)

\* a list headed by "/" with two or more operands, one of them after the
\* first evaluating to Number(0)
DividesByZero(e, checks) ==
    /\ HeadOp(e) = "/"
    /\ Len(e.values) >= 3
    /\ \E i \in 3..Len(e.values) : evaluate(e.values[i], checks) = Ok(Number(0))

\* C2: a list headed by "/" with at least two operands, one of them after
\* the first evaluating to Number(0), makes Interpreter::evaluate return an
\* Err value; the process never aborts.
C2_DivisionByZeroIsErr ==
    (Evaluated /\ DividesByZero(ast.value, overflow_checks)) => IsErr(result)

\* C3: the empty List and the List holding only the Symbol "-" make
\* Interpreter::evaluate return an Err value; the process never aborts on an
\* index out of range.
C3_ShortListIsErr ==
    (Evaluated /\ ast.value \in {List(<<>>), List(<<Symbol(<<"-">>)>>)}) => IsErr(result)

\* the operands whose own evaluation returns an Err
FailingOperands(e, checks) ==
    {i \in 2..Len(e.values) : IsErr(evaluate(e.values[i], checks))}

\* the call on e evaluates its i-th value, and that evaluation returns an
\* Err: "/" and "*" have their two operands, and the operands before are
\* Numbers
OperandFails(e, i, checks) ==
    /\ HeadOp(e) \in {"/", "*"} => Len(e.values) >= 3
    /\ \A j \in 2..(i - 1) :
          LET v == evaluate(e.values[j], checks)
          IN  IsOk(v) /\ IsNumber(v.value)
    /\ IsErr(evaluate(e.values[i], checks))

\* C4 as stated: when the evaluation of an operand of a list headed by one
\* of + - * / fails with message m, the enclosing call returns Err(m), the
\* same message unchanged.
C4_OperandErrorUnchanged ==
    (Evaluated /\ HeadOp(ast.value) # "" /\ ~IsPanic(result))
    => \A i \in 2..Len(ast.value.values) :
          OperandFails(ast.value, i, overflow_checks)
          => result = evaluate(ast.value.values[i], overflow_checks)

\* C4 as amended: when the evaluation of an operand of a list headed by one
\* of + - * / fails, the enclosing call never returns Ok and never returns
\* another message than its own: if it returns, it returns
\* Err("Invalid <op> operation") for the operator of the enclosing list.
C4_OperandErrorNamesOuter ==
    (Evaluated /\ HeadOp(ast.value) # ""
        /\ FailingOperands(ast.value, overflow_checks) # {})
    => (IsPanic(result) \/ result = Err(InvalidOperation(HeadOp(ast.value))))

\* (+ (* 2 (/ 2))): the error of "/" is renamed by "*" and again by "+"
C4_Witness ==
    /\ Evaluated
    /\ ast.value = List(<<Symbol(<<"+">>),
                          List(<<Symbol(<<"*">>), Number(2),
                                 List(<<Symbol(<<"/">>), Number(2)>>)>>)>>)
    /\ result = Err("Invalid + operation")

\* the line read is the text, with or without its newline
LineIs(text) == expr = text \/ expr = text \o <<"\n">>

\* C5 as stated: for all integers a and b written as decimal literals, with
\* a, b and a+b in the range of the integer type, the text "(+ a b)"
\* tokenized, parsed and evaluated yields Ok(Number(a+b)).
C5_SumOfLiterals ==
    pc \in {"print", "panic"} =>
        \A a \in MinInt..MaxInt, b \in MinInt..MaxInt :
            (InRange(a + b) /\ LineIs(SumText(a, b))) => result = Ok(Number(a + b))

\* C5 as amended: for all non-negative integers a and b written as decimal
\* literals, with a, b and a+b in the range of the integer type, the text
\* "(+ a b)" tokenized, parsed and evaluated yields Ok(Number(a+b)).
C5_SumOfNonNegativeLiterals ==
    pc \in {"print", "panic"} =>
        \A a \in 0..MaxInt, b \in 0..MaxInt :
            (InRange(a + b) /\ LineIs(SumText(a, b))) => result = Ok(Number(a + b))

\* "(+ 7 8)" has been evaluated to Number(15)
C5_Witness ==
    /\ pc = "print"
    /\ expr = SumText(7, 8) \o <<"\n">>
    /\ result = Ok(Number(15))

\* C6: every pass of tokenize's loop either advances the cursor start_index
\* by at least one byte, never past the end of the text, or leaves the
\* loop; no pass makes zero progress and repeats.
C6_ScanProgress ==
    pc = "tokenize" =>
        LET scan == Scan(expr, start_index)
        IN  /\ start_index <= ByteLen(expr)
            /\ scan.end_index <= ByteLen(expr)
            /\ \/ ScanOutcome(scan.state) = "break"
               \/ scan.end_index > start_index

\* the cursor has advanced, and the next scan starts on a character of no
\* category
C6_Witness ==
    /\ pc = "tokenize"
    /\ 0 < start_index
    /\ start_index < ByteLen(expr)
    /\ Scan(expr, start_index).state = "Start"

\* C7: evaluate is idempotent on its results, and a Number, a Symbol and a
\* non-empty List whose first element is no Symbol, or a Symbol other than
\* + - * /, are returned unchanged, the List's operands unevaluated.
C7_Idempotent ==
    Evaluated =>
        /\ IsOk(result) => evaluate(result.value, overflow_checks) = result
        /\ (~IsList(ast.value) \/ (Len(ast.value.values) > 0 /\ HeadOp(ast.value) = ""))
              => result = ast

\* (f (+ 2)) is returned as it is, (+ 2) not evaluated
C7_Witness ==
    /\ Evaluated
    /\ ast.value = List(<<Symbol(<<"f">>), List(<<Symbol(<<"+">>), Number(2)>>)>>)
    /\ result = ast

\* the quotient of a by b truncated toward zero: the remainder is smaller
\* than the divisor and has the sign of the dividend
Abs(x) == IF x < 0 THEN -x ELSE x
TruncQuotient(a, b) ==
    CHOOSE q \in (-Abs(a))..Abs(a) :
        LET r == a - q * b
        IN  Abs(r) < Abs(b) /\ (r = 0 \/ (r < 0) = (a < 0))

\* ((v1 / v2) / v3) ... / vn over the evaluated operands from the i-th on
RECURSIVE QuotientFold(_, _, _, _)
QuotientFold(values, i, acc, checks) ==
    IF i > Len(values) THEN acc
    ELSE QuotientFold(values, i + 1,
             TruncQuotient(acc, evaluate(values[i], checks).value.number), checks)

\* a list headed by "/" whose two or more operands evaluate to Numbers,
\* those after the first not zero
DividesNumbers(e, checks) ==
    /\ HeadOp(e) = "/"
    /\ Len(e.values) >= 3
    /\ \A i \in 2..Len(e.values) :
          LET v == evaluate(e.values[i], checks)
          IN  IsOk(v) /\ IsNumber(v.value) /\ (i > 2 => v.value.number # 0)

\* C8: a list headed by "/" whose operands evaluate to Numbers v1..vn, n >= 2,
\* with v2..vn not zero, evaluates to Number(((v1 / v2) / v3) ... / vn),
\* each division truncated toward zero.
C8_DivisionFoldsTruncating ==
    (Evaluated /\ DividesNumbers(ast.value, overflow_checks))
    => result = Ok(Number(QuotientFold(ast.value.values, 3,
                     evaluate(ast.value.values[2], overflow_checks).value.number,
                     overflow_checks)))

\* a character of none of the five categories
Unrecognised(c) ==
    /\ c \notin {"(", ")"} \cup Digits \cup Letters \cup OpChars
    /\ c \notin {" ", "\t", "\n", "\r", NBSP}

\* the place of the first character of no category, 0 when there is none
FirstUnrecognised(text) ==
    IF \E i \in 1..Len(text) : Unrecognised(text[i])
    THEN CHOOSE i \in 1..Len(text) :
            Unrecognised(text[i]) /\ \A j \in 1..(i - 1) : ~Unrecognised(text[j])
    ELSE 0

\* C9: a scan that starts on a character of no recognised category ends
\* tokenize: it returns exactly the tokens of the text before that
\* character, in order, and no token for any text after it.
C9_UnrecognisedEndsInput ==
    (Tokenized /\ FirstUnrecognised(expr) # 0)
    => LET before == SubSeq(expr, 1, FirstUnrecognised(expr) - 1)
       IN  /\ Ok(tokens) = tokenize(before)
           /\ start_index = ByteLen(before)

\* of "7#a" only the 7 before the "#" is returned
C9_Witness ==
    /\ pc = "parse"
    /\ expr = <<"7", "#", "a">>
    /\ tokens = <<TokNumber(7)>>

\* C10: every Number token carries a non-negative value, and an arithmetic
\* operator character immediately followed by digits is scanned as one
\* Symbol token with them.
C10_NumberTokensNonNegative ==
    /\ \A i \in 1..Len(tokens) :
          tokens[i].token_type = "Number" => tokens[i].number >= 0
    /\ pc = "tokenize" =>
          LET rest == DropBytes(expr, start_index)
              scan == Scan(expr, start_index)
          IN  (Len(rest) >= 2 /\ rest[1] \in OpChars /\ rest[2] \in Digits)
              => /\ scan.state = "Symbol"
                 /\ scan.end_index >= start_index + 2

\* "-7" has been returned as the one token Symbol("-7")
C10_Witness ==
    /\ pc = "parse"
    /\ expr = <<"-", "7">>
    /\ tokens = <<TokSymbol(<<"-", "7">>)>>

====
